---- MODULE Spec2Model ----
(***************************************************************************)
(* A model of the gas_saver_eth transaction scheduler: the token-bucket    *)
(* RateLimiter (server/src/limiter.rs), the NonceManager (src/nonce.rs),   *)
(* the GasModel fee window (server/src/model.rs) and the Scheduler's       *)
(* handlers and re-evaluation pass (server/src/scheduler.rs).              *)
(*                                                                         *)
(* Time is counted in ticks of half a second: the rate limiter's one       *)
(* second (1_000_000_000 ns) is NANOS_PER_SEC = 2 ticks, and the           *)
(* scheduler's reprice_cooldown of 500 ms is REPRICE_COOLDOWN = 1 tick.    *)
(* Every u64 of the program stays far below 2^64 within the bounds, so    *)
(* the arithmetic is written without the modulus.                          *)
(***************************************************************************)
EXTENDS Integers, Sequences, FiniteSets, TLC

VARIABLES
    clock,        \* the monotonic wall clock read by Instant::now(), in ticks
    \* ---- RateLimiter (limiter.rs:4-9)
    tokens,       \* RateLimiter.tokens (AtomicU64)
    max_tokens,   \* RateLimiter.max_tokens
    refill_rate,  \* RateLimiter.refill_rate, tokens per second
    last_refill,  \* RateLimiter.last_refill (AtomicU64)
    lim,          \* per thread: position in check_and_consume and its locals
    trueSince,    \* history: trueSince[t] = calls begun at a time >= t that returned true
    credited,     \* history: sum of tokens_to_add over the won last_refill CASes
    added,        \* history: tokens actually added by the refill CAS loop
    last0,        \* history: last_refill as sampled by RateLimiter::new
    \* ---- NonceManager (nonce.rs:5-8)
    nonces,       \* NonceManager.nonces: sender -> counter, or Absent
    ncall,        \* per caller of next_nonce: position, address and result
    start0,       \* history: each sender's counter before the calls
    \* ---- GasModel (model.rs:4-7) and Scheduler::run's locals (scheduler.rs:55-56)
    history,      \* GasModel.history, the fee window
    max_history,  \* GasModel.max_history
    pending_txs,  \* Vec<TransactionRequest>
    submitted_txs,\* HashMap<u64, SubmittedTx>
    emitted,      \* history: the decisions the last pass sent on decision_tx
    submit_count, \* history: submit_count[id] = Submit decisions sent for id
    ingested,     \* history: the ids of the requests received
    pass,         \* history: the last re-evaluation pass (start, fee, mode, admitted ids)
    inserted,     \* history: the samples given to GasModel::update, in call order
    \* ---- Scheduler::run's loop (scheduler.rs:50-69)
    gas_events,   \* the gas event channel: messages queued, sent so far, senders dropped
    tx_requests,  \* the request channel: messages queued, sent so far, senders dropped
    run           \* the loop: its position, messages received per input

limiterVars == <<tokens, max_tokens, refill_rate, last_refill, lim,
                 trueSince, credited, added, last0>>

nonceVars == <<nonces, ncall, start0>>

schedVars == <<history, max_history, pending_txs, submitted_txs, emitted,
               submit_count, ingested, pass>>

windowVars == <<inserted>>

loopVars == <<gas_events, tx_requests, run>>

vars == <<clock, limiterVars, nonceVars, schedVars, windowVars, loopVars>>

\* ------------------------------------------------------------------ bounds
MaxClock == 3       \* the clock stops advancing here (rate limiter)
MaxTime == 2        \* the clock stops advancing here (scheduler)
MaxTokens == 2      \* largest capacity `max` given to RateLimiter::new
MaxBurst == 5       \* the scheduler's limiter capacity: two passes over two pending requests and one more
MaxRate == 1        \* largest `rate` given to RateLimiter::new
MaxCtorStall == 1   \* largest reading of the clock pair in RateLimiter::new
MaxStart == 2       \* largest counter seeded by update_nonce before the calls
MaxTx == 2          \* request ids are 1..MaxTx
MaxHistory == 2     \* the capacity given to GasModel::new
MaxSendDelay == 1   \* longest suspension of one decision_tx.send
MaxUpdates == 3     \* GasModel::update calls followed on a model of its own
MaxCapacity == 2    \* largest small max_history given to GasModel::new
MaxSent == 2        \* messages sent on each input channel of Scheduler::run

\* ------------------------------------------------------- program constants
NANOS_PER_SEC == 2                   \* 1_000_000_000 ns, in ticks
REPRICE_COOLDOWN == 1                \* Duration::from_millis(500), in ticks
SPIKE_THRESHOLD == 15                \* spike_threshold: 15.0

CLOCK_PAIR == 0                      \* Instant::now().elapsed() read back to back

TEST_CAPACITY == 10                  \* tests::test_model: GasModel::new(10)

FeeValues == {50, 55, 100}           \* base fees the gas events carry
SampleValues == {10, 20, 30}         \* the samples of tests::test_model
MaxFeeValues == {52, 100}            \* max_fee_per_gas of the requests
TipValues == {2}                     \* max_priority_fee_per_gas of the requests

Threads == {"t1", "t2"}              \* concurrent callers of check_and_consume
Callers == {"c1", "c2", "c3"}        \* concurrent callers of next_nonce
Senders == {"A", "C"}                \* the 20-byte addresses [0xAA; 20], [0xCC; 20]
Absent == -1                         \* no entry in the DashMap for a sender

Min(a, b) == IF a <= b THEN a ELSE b

\* u64::saturating_sub
SaturatingSub(a, b) == IF a >= b THEN a - b ELSE 0

\* ------------------------------------------------------------ RateLimiter
\* refill(): elapsed_ns = now.saturating_sub(last)
ElapsedNs(now, last) == SaturatingSub(now, last)

\* refill(): `if elapsed_ns > 1_000_000_000`
RefillDue(elapsed_ns) == elapsed_ns > NANOS_PER_SEC

TokensToAddNoDiv(elapsed_ns, rate) == elapsed_ns * rate

\* refill(): tokens_to_add = (elapsed_ns / 1_000_000_000) * self.refill_rate
TokensToAdd(elapsed_ns, rate) == (elapsed_ns \div NANOS_PER_SEC) * rate

\* refill(): next = (current + tokens_to_add).min(self.max_tokens)
RefillNext(current, tokens_to_add, max) == Min(current + tokens_to_add, max)

\* AtomicU64::compare_exchange on a cell holding `cell`: <<succeeded, new cell>>
CompareExchangeStore(cell, expected, new) == <<TRUE, new>>

CompareExchange(cell, expected, new) ==
    IF cell = expected THEN <<TRUE, new>> ELSE <<FALSE, cell>>

IdleThread == [pc |-> "idle", inst |-> 0, now |-> 0, last |-> 0, cur |-> 0, add |-> 0]

\* RateLimiter::new(rate, max): the bucket starts full; last_refill is the
\* reading of Instant::now().elapsed(), the time between two clock reads.
LimiterInit ==
    /\ max_tokens \in 0..MaxTokens
    /\ refill_rate \in 0..MaxRate
    /\ tokens = max_tokens
    /\ last_refill \in 0..MaxCtorStall
    /\ last0 = last_refill
    /\ lim = [t \in Threads |-> IdleThread]
    /\ trueSince = [t \in 0..MaxClock |-> 0]
    /\ credited = 0
    /\ added = 0

\* the history of a call of thread th, begun at lim[th].inst, that returns true
RecordTrue(th) == trueSince' = [t \in 0..MaxClock |->
                     IF t <= lim[th].inst THEN trueSince[t] + 1 ELSE trueSince[t]]

\* check_and_consume -> refill: `Instant::now()`, the first clock read of line 40
LimCallNow(t) ==
    /\ lim[t].pc = "idle"
    /\ lim' = [lim EXCEPT ![t] = [@ EXCEPT !.pc = "elapsed", !.inst = clock]]
    /\ UNCHANGED <<clock, tokens, max_tokens, refill_rate, last_refill,
                   trueSince, credited, added, last0, nonceVars, schedVars, windowVars, loopVars>>

\* refill: `.elapsed().as_nanos() as u64`, the second clock read of line 40
LimElapsed(t) ==
    /\ lim[t].pc = "elapsed"
    /\ lim' = [lim EXCEPT ![t] = [@ EXCEPT !.pc = "load_last",
                                           !.now = clock - lim[t].inst]]
    /\ UNCHANGED <<clock, tokens, max_tokens, refill_rate, last_refill,
                   trueSince, credited, added, last0, nonceVars, schedVars, windowVars, loopVars>>

\* refill: load last_refill, elapsed_ns, the two `if`s of lines 44 and 47
LimLoadLast(t) ==
    /\ lim[t].pc = "load_last"
    /\ LET elapsed_ns == ElapsedNs(lim[t].now, last_refill)
           tokens_to_add == TokensToAdd(elapsed_ns, refill_rate)
       IN  IF RefillDue(elapsed_ns) /\ tokens_to_add > 0
           THEN lim' = [lim EXCEPT ![t] = [@ EXCEPT !.pc = "cas_last",
                                                    !.last = last_refill,
                                                    !.add = tokens_to_add]]
           ELSE lim' = [lim EXCEPT ![t] = [@ EXCEPT !.pc = "consume_load", !.now = 0]]
    /\ UNCHANGED <<clock, tokens, max_tokens, refill_rate, last_refill,
                   trueSince, credited, added, last0, nonceVars, schedVars, windowVars, loopVars>>

\* refill: last_refill.compare_exchange(last, now); a losing racer skips the refill
LimCasLast(t) ==
    /\ lim[t].pc = "cas_last"
    /\ LET r == CompareExchange(last_refill, lim[t].last, lim[t].now)
       IN  /\ last_refill' = r[2]
           /\ IF r[1]
              THEN /\ lim' = [lim EXCEPT ![t] = [@ EXCEPT !.pc = "refill_load",
                                                          !.now = 0, !.last = 0]]
                   /\ credited' = credited + lim[t].add
              ELSE /\ lim' = [lim EXCEPT ![t] = [@ EXCEPT !.pc = "consume_load",
                                                          !.now = 0, !.last = 0, !.add = 0]]
                   /\ UNCHANGED credited
    /\ UNCHANGED <<clock, tokens, max_tokens, refill_rate, trueSince, added, last0,
                   nonceVars, schedVars, windowVars, loopVars>>

\* refill: `let mut current = self.tokens.load(..)`
LimRefillLoad(t) ==
    /\ lim[t].pc = "refill_load"
    /\ lim' = [lim EXCEPT ![t] = [@ EXCEPT !.pc = "refill_cas", !.cur = tokens]]
    /\ UNCHANGED <<clock, tokens, max_tokens, refill_rate, last_refill,
                   trueSince, credited, added, last0, nonceVars, schedVars, windowVars, loopVars>>

\* refill: one turn of the loop of lines 54-65
LimRefillCas(t) ==
    /\ lim[t].pc = "refill_cas"
    /\ LET next == RefillNext(lim[t].cur, lim[t].add, max_tokens)
           r == CompareExchange(tokens, lim[t].cur, next)
       IN  /\ tokens' = r[2]
           /\ IF r[1]
              THEN /\ lim' = [lim EXCEPT ![t] = [@ EXCEPT !.pc = "consume_load",
                                                          !.cur = 0, !.add = 0]]
                   /\ added' = added + (next - lim[t].cur)
              ELSE /\ lim' = [lim EXCEPT ![t] = [@ EXCEPT !.cur = r[2]]]
                   /\ UNCHANGED added
    /\ UNCHANGED <<clock, max_tokens, refill_rate, last_refill, trueSince, credited, last0,
                   nonceVars, schedVars, windowVars, loopVars>>

\* check_and_consume: load tokens; `if current == 0 { return false }`
LimConsumeLoad(t) ==
    /\ lim[t].pc = "consume_load"
    /\ IF tokens = 0
       THEN lim' = [lim EXCEPT ![t] = IdleThread]
       ELSE lim' = [lim EXCEPT ![t] = [@ EXCEPT !.pc = "consume_cas", !.cur = tokens]]
    /\ UNCHANGED <<clock, tokens, max_tokens, refill_rate, last_refill,
                   trueSince, credited, added, last0, nonceVars, schedVars, windowVars, loopVars>>

\* check_and_consume: tokens.compare_exchange(current, current - 1); true on success
LimConsumeCas(t) ==
    /\ lim[t].pc = "consume_cas"
    /\ LET r == CompareExchange(tokens, lim[t].cur, lim[t].cur - 1)
       IN  /\ tokens' = r[2]
           /\ IF r[1]
              THEN /\ lim' = [lim EXCEPT ![t] = IdleThread]
                   /\ RecordTrue(t)
              ELSE /\ lim' = [lim EXCEPT ![t] = [@ EXCEPT !.pc = "consume_load", !.cur = 0]]
                   /\ UNCHANGED trueSince
    /\ UNCHANGED <<clock, max_tokens, refill_rate, last_refill, credited, added, last0,
                   nonceVars, schedVars, windowVars, loopVars>>

\* ----------------------------------------------------------- NonceManager
\* NonceManager::new(): an empty map
NonceNew == [a \in Senders |-> Absent]

OrInsertOverwrite(map, a, v) == [map EXCEPT ![a] = v]

\* DashMap::entry(a).or_insert_with(|| Arc::new(AtomicU64::new(v)))
OrInsert(map, a, v) == IF map[a] = Absent THEN [map EXCEPT ![a] = v] ELSE map

FetchAddTwice(map, a) == <<map[a], [map EXCEPT ![a] = @ + 2]>>

\* AtomicU64::fetch_add(1) on a's counter: <<value returned, map after>>
FetchAdd(map, a) == <<map[a], [map EXCEPT ![a] = @ + 1]>>

\* update_nonce(a, n): entry(a).or_insert(n), then store(n)
UpdateNonce(map, a, n) == [OrInsert(map, a, n) EXCEPT ![a] = n]

\* peek_nonce(a)
PeekNonce(map, a) == IF map[a] = Absent THEN 0 ELSE map[a]

\* next_nonce(a) run to completion by one caller: <<nonce, map after>>
NextNonce(map, a) == FetchAdd(OrInsert(map, a, 0), a)

IdleCaller == [pc |-> "idle", addr |-> "none", ret |-> 0]

\* the allocator before the concurrent calls: each sender is unseen, or was
\* seeded by update_nonce
NonceInit ==
    /\ \E seed \in [Senders -> {Absent} \cup 0..MaxStart] :
          /\ nonces = [a \in Senders |->
                         IF seed[a] = Absent THEN NonceNew[a]
                         ELSE UpdateNonce(NonceNew, a, seed[a])[a]]
          /\ start0 = [a \in Senders |-> PeekNonce(nonces, a)]
    /\ ncall = [c \in Callers |-> IdleCaller]

\* next_nonce, lines 21-24: the entry lookup that inserts an unseen sender
NonceEntry(c, a) ==
    /\ ncall[c].pc = "idle"
    /\ nonces' = OrInsert(nonces, a, 0)
    /\ ncall' = [ncall EXCEPT ![c] = [pc |-> "entry", addr |-> a, ret |-> 0]]
    /\ UNCHANGED <<start0, clock, limiterVars, schedVars, windowVars, loopVars>>

\* next_nonce, line 25: entry.fetch_add(1, SeqCst), and the return
NonceFetchAdd(c) ==
    /\ ncall[c].pc = "entry"
    /\ LET r == FetchAdd(nonces, ncall[c].addr)
       IN  /\ nonces' = r[2]
           /\ ncall' = [ncall EXCEPT ![c] = [@ EXCEPT !.pc = "done", !.ret = r[1]]]
    /\ UNCHANGED <<start0, clock, limiterVars, schedVars, windowVars, loopVars>>

\* --------------------------------------------------------------- GasModel
\* GasModel::update(base_fee): evict the head when the window is full, append
Update(h, cap, base_fee) ==
    Append(IF Len(h) >= cap /\ h # <<>> THEN Tail(h) ELSE h, base_fee)

\* GasModel::current_fee(): the tail of the window, 0 when it is empty
CurrentFee(h) == IF h = <<>> THEN 0 ELSE h[Len(h)]

RECURSIVE SumSeq(_)
SumSeq(h) == IF h = <<>> THEN 0 ELSE h[1] + SumSeq(Tail(h))

SumSquaresFromMean(h) == (SumSeq(h) * SumSeq(h)) \div Len(h)

RECURSIVE SumSquares(_)
SumSquares(h) == IF h = <<>> THEN 0 ELSE h[1] * h[1] + SumSquares(Tail(h))

\* GasModel::get_volatility(), squared and scaled by len^2 to stay in the
\* integers: variance = (len * sum(x^2) - sum(x)^2) / len^2; 0 below 2 samples
VarianceTimesLenSquared(h) ==
    IF Len(h) < 2 THEN 0 ELSE Len(h) * SumSquares(h) - SumSeq(h) * SumSeq(h)

\* GasModel::get_trend() < -1.0, with trend = (last - first) / len
TrendBelowMinusOne(h) ==
    IF Len(h) < 2 THEN FALSE ELSE h[Len(h)] - h[1] < -Len(h)

\* -------------------------------------------------------------- Scheduler
\* re_evaluate_pending: is_spike = volatility > self.config.spike_threshold
IsSpike(h) ==
    Len(h) >= 2 /\
    VarianceTimesLenSquared(h) > SPIKE_THRESHOLD * SPIKE_THRESHOLD * Len(h) * Len(h)

MinNewPriceNoBump(last_gas_price) == last_gas_price

\* re_evaluate_pending: min_new_price = (tx.last_gas_price * 110) / 100
MinNewPrice(last_gas_price) == (last_gas_price * 110) \div 100

\* re_evaluate_pending: desired_price / gas_price = current_fee + tip
DesiredPrice(current_fee, req) == current_fee + req.max_priority_fee_per_gas

\* re_evaluate_pending: tx.last_action_at.elapsed() < self.config.reprice_cooldown
CooldownActive(now, last_action_at) == now - last_action_at < REPRICE_COOLDOWN

RepriceWantedNoCap(desired_price, min_new_price, req) == desired_price > min_new_price

\* re_evaluate_pending: the condition of line 119
RepriceWanted(desired_price, min_new_price, req) ==
    desired_price > min_new_price /\ desired_price <= req.max_fee_per_gas

AdmitBranchCapFirst(is_spike, current_fee, trend_down, req) ==
    IF current_fee <= req.max_fee_per_gas THEN "normal"
    ELSE IF trend_down THEN "defer"
    ELSE "wait"

\* re_evaluate_pending: the branch taken for a pending request, lines 145-171
AdmitBranch(is_spike, current_fee, trend_down, req) ==
    IF is_spike THEN "spike"
    ELSE IF current_fee <= req.max_fee_per_gas THEN "normal"
    ELSE IF trend_down THEN "defer"
    ELSE "wait"

\* Vec::sort_by_key(|t| t.id): a stable insertion sort
RECURSIVE InsertSorted(_, _)
InsertSorted(s, x) ==
    IF s = <<>> THEN <<x>>
    ELSE IF s[Len(s)].id <= x.id THEN Append(s, x)
    ELSE Append(InsertSorted(SubSeq(s, 1, Len(s) - 1), x), s[Len(s)])

RECURSIVE SortById(_)
SortById(s) ==
    IF s = <<>> THEN <<>>
    ELSE InsertSorted(SortById(SubSeq(s, 1, Len(s) - 1)), s[Len(s)])

\* Vec::remove(idx)
RemoveAt(s, idx) == SubSeq(s, 1, idx - 1) \o SubSeq(s, idx + 1, Len(s))

RemoveIndicesNone(s, to_remove) == s

RECURSIVE RemoveIndicesForward(_, _)
RemoveIndicesForward(s, to_remove) ==
    IF to_remove = <<>> THEN s
    ELSE RemoveIndicesForward(RemoveAt(s, to_remove[1]), Tail(to_remove))

\* `for &idx in to_remove.iter().rev() { pending_txs.remove(idx); }`
\* (indices are 1-based here)
RECURSIVE RemoveIndices(_, _)
RemoveIndices(s, to_remove) ==
    IF to_remove = <<>> THEN s
    ELSE RemoveIndices(RemoveAt(s, to_remove[Len(to_remove)]),
                       SubSeq(to_remove, 1, Len(to_remove) - 1))

CheckAndConsumeFree(tok, last, now) == [ok |-> TRUE, tok |-> tok, last |-> last]

\* check_and_consume run to completion by the scheduler's task, the clock
\* pair of refill reading `now`: [ok, tok, last]
CheckAndConsume(tok, last, now) ==
    LET elapsed_ns == ElapsedNs(now, last)
        tokens_to_add == TokensToAdd(elapsed_ns, refill_rate)
        due == RefillDue(elapsed_ns) /\ tokens_to_add > 0
        last1 == IF due THEN CompareExchange(last, last, now)[2] ELSE last
        tok1 == IF due
                THEN CompareExchange(tok, tok, RefillNext(tok, tokens_to_add, max_tokens))[2]
                ELSE tok
    IN  IF tok1 = 0
        THEN [ok |-> FALSE, tok |-> tok1, last |-> last1]
        ELSE [ok |-> TRUE, tok |-> CompareExchange(tok1, tok1, tok1 - 1)[2], last |-> last1]

\* HashMap::insert(k, v)
MapInsert(f, k, v) == [x \in DOMAIN f \cup {k} |-> IF x = k THEN v ELSE f[x]]

\* the orders in which HashMap::values_mut() may visit the keys
IterationOrders(f) ==
    {o \in [1..Cardinality(DOMAIN f) -> DOMAIN f] :
        \A i, j \in DOMAIN o : i # j => o[i] # o[j]}

\* re_evaluate_pending, lines 105-108: the snapshot of the fee model
Snapshot(h) ==
    [current_fee |-> CurrentFee(h), is_spike |-> IsSpike(h),
     trend_down |-> TrendBelowMinusOne(h)]

\* re_evaluate_pending, phase 1 (lines 111-134) from the i-th visited entry on.
\* r carries the pass's state: sub (submitted_txs), out (decisions sent), t (the
\* clock), and the limiter and allocator fields used by phase 2. A send that
\* suspends on the full decision channel completes inp.dly ticks later.
\* History: emitted_at is the time the entry's last decision entered the
\* channel; a decision records it as prev_at, and its own time as at.
RECURSIVE RepriceEach(_, _, _, _, _)
RepriceEach(ord, i, r, snap, inp) ==
    IF i > Len(ord) THEN r
    ELSE
      LET tx == r.sub[ord[i]]
          min_new_price == MinNewPrice(tx.last_gas_price)
          desired_price == DesiredPrice(snap.current_fee, tx.req)
          sent == r.t + inp.dly
          decision == [kind |-> "Reprice", tx_id |-> tx.req.id, nonce |-> tx.nonce,
                       gas_price |-> desired_price, old |-> tx.last_gas_price,
                       at |-> sent, prev_at |-> tx.emitted_at]
      IN  IF CooldownActive(r.t, tx.last_action_at)
          THEN RepriceEach(ord, i + 1, r, snap, inp)
          ELSE IF RepriceWanted(desired_price, min_new_price, tx.req)
          THEN RepriceEach(ord, i + 1,
                   [r EXCEPT !.out = Append(@, decision),
                             !.sub = [@ EXCEPT ![ord[i]] =
                                        [tx EXCEPT !.last_gas_price = desired_price,
                                                   !.last_action_at = sent,
                                                   !.emitted_at = sent]],
                             !.t = sent],
                   snap, inp)
          ELSE RepriceEach(ord, i + 1, r, snap, inp)

\* re_evaluate_pending, phase 2 (lines 140-193) from index idx of the sorted
\* pending list on. r.to_remove lists the indices pushed; r.admitted (history)
\* the ids for which check_and_consume returned true. The task reads the two
\* clocks of refill's `Instant::now().elapsed()` back to back.
RECURSIVE AdmitEach(_, _, _, _, _)
AdmitEach(pend, idx, r, snap, inp) ==
    IF idx > Len(pend) THEN r
    ELSE
      LET tx == pend[idx]
          c == CheckAndConsume(r.tok, r.last, CLOCK_PAIR)
          r1 == [r EXCEPT !.tok = c.tok, !.last = c.last]
          branch == AdmitBranch(snap.is_spike, snap.current_fee, snap.trend_down, tx)
          gas_price == DesiredPrice(snap.current_fee, tx)
          nn == NextNonce(r1.non, tx.from)
          sent == r1.t + inp.dly
          record == [req |-> tx, nonce |-> nn[1], last_gas_price |-> gas_price,
                     last_action_at |-> r1.t, emitted_at |-> sent]
          decision == [kind |-> "Submit", tx_id |-> tx.id, nonce |-> nn[1],
                       gas_price |-> gas_price, old |-> 0,
                       at |-> sent, prev_at |-> sent]
      IN  IF ~c.ok THEN r1
          ELSE IF branch \in {"spike", "normal"}
          THEN AdmitEach(pend, idx + 1,
                   [r1 EXCEPT !.non = nn[2],
                              !.sub = MapInsert(@, tx.id, record),
                              !.out = Append(@, decision),
                              !.t = sent,
                              !.to_remove = Append(@, idx),
                              !.admitted = Append(@, tx.id)],
                   snap, inp)
          ELSE AdmitEach(pend, idx + 1, [r1 EXCEPT !.admitted = Append(@, tx.id)],
                         snap, inp)

\* re_evaluate_pending(pending_txs, submitted_txs) on the fee window h: the
\* state after the pass, with pend the pending list it leaves
ReEvaluatePending(h, pend, inp) ==
    LET snap == Snapshot(h)
        r0 == [sub |-> submitted_txs, out |-> <<>>, tok |-> tokens,
               last |-> last_refill, non |-> nonces, t |-> clock,
               to_remove |-> <<>>, admitted |-> <<>>]
        r1 == RepriceEach(inp.ord, 1, r0, snap, inp)
        sorted == SortById(pend)
        r2 == AdmitEach(sorted, 1, r1, snap, inp)
    IN  [r |-> r2, pend |-> RemoveIndices(sorted, r2.to_remove), snap |-> snap]

\* what the environment decides during one pass: the HashMap's iteration
\* order and how long the pass's sends are suspended
PassInputs ==
    {[ord |-> o, dly |-> d] :
        o \in IterationOrders(submitted_txs),
        d \in 0..MaxSendDelay}

\* the Submit decisions among those sent for id
SubmitsFor(out, id) ==
    Cardinality({i \in DOMAIN out : out[i].kind = "Submit" /\ out[i].tx_id = id})

\* the pass's results become the state
Commit(res) ==
    /\ res.r.t <= MaxTime
    /\ clock' = res.r.t
    /\ submitted_txs' = res.r.sub
    /\ pending_txs' = res.pend
    /\ emitted' = res.r.out
    /\ submit_count' = [id \in 1..MaxTx |-> submit_count[id] + SubmitsFor(res.r.out, id)]
    /\ tokens' = res.r.tok
    /\ last_refill' = res.r.last
    /\ nonces' = res.r.non
    /\ pass' = [at |-> clock, fee |-> res.snap.current_fee, spike |-> res.snap.is_spike,
                admitted |-> res.r.admitted]

PendingIds == {pending_txs[i].id : i \in DOMAIN pending_txs}

\* the requests upstream may send: any sender, cap and tip
Requests ==
    [id : 1..MaxTx, from : Senders,
     max_fee_per_gas : MaxFeeValues, max_priority_fee_per_gas : TipValues]

\* handle_gas_event, BaseFeeUpdate | NewBlock (lines 78-81)
HandleBaseFee ==
    \E base_fee \in FeeValues :
      LET h == Update(history, max_history, base_fee)
      IN  /\ history' = h
          /\ \E inp \in PassInputs :
                \E res \in {ReEvaluatePending(h, pending_txs, inp)} : Commit(res)
          /\ UNCHANGED <<max_history, ingested, max_tokens, refill_rate>>
          /\ UNCHANGED <<lim, trueSince, credited, added, last0, ncall, start0, windowVars, loopVars>>

\* handle_gas_event, TxConfirmed (lines 82-85): logged, nothing else
HandleTxConfirmed ==
    UNCHANGED vars

\* handle_gas_event, MempoolTx (line 86): ignored
HandleMempoolTx ==
    UNCHANGED vars

\* handle_tx_request (lines 90-98); upstream gives every request its own id
HandleTxRequest ==
    \E req \in Requests :
      /\ req.id \notin ingested
      /\ ingested' = ingested \cup {req.id}
      /\ \E inp \in PassInputs :
            \E res \in {ReEvaluatePending(history, Append(pending_txs, req), inp)} :
                Commit(res)
      /\ UNCHANGED <<history, max_history, max_tokens, refill_rate>>
      /\ UNCHANGED <<lim, trueSince, credited, added, last0, ncall, start0, windowVars, loopVars>>

\* ---------------------------------------------------------- specifications
\* the wall clock advances, up to the horizon
Tick(horizon) ==
    /\ clock < horizon
    /\ clock' = clock + 1
    /\ UNCHANGED <<limiterVars, nonceVars, schedVars, windowVars, loopVars>>

\* no thread is inside check_and_consume, no history is kept
LimiterQuiet ==
    /\ lim = [t \in Threads |-> IdleThread]
    /\ trueSince = [t \in 0..MaxClock |-> 0]
    /\ credited = 0 /\ added = 0

\* no caller is inside next_nonce
NonceQuiet ==
    /\ ncall = [c \in Callers |-> IdleCaller]
    /\ start0 = [a \in Senders |-> 0]

\* no sample was given to the model yet
WindowQuiet == inserted = <<>>

\* an open, empty channel
EmptyChannel == [queued |-> 0, sent |-> 0, closed |-> FALSE]

\* Scheduler::run entered, both inputs open and empty (main, lines 15-16, 38-40)
LoopInit ==
    /\ gas_events = EmptyChannel
    /\ tx_requests = EmptyChannel
    /\ run = [pc |-> "select", gas |-> 0, req |-> 0, alone |-> 0]

\* Scheduler::run, lines 55-56, on a fresh GasModel::new(max_history)
SchedulerInit ==
    /\ history = <<>>
    /\ max_history = MaxHistory
    /\ pending_txs = <<>>
    /\ submitted_txs = [x \in {} |-> 0]
    /\ emitted = <<>>
    /\ submit_count = [id \in 1..MaxTx |-> 0]
    /\ ingested = {}
    /\ pass = [at |-> 0, fee |-> 0, spike |-> FALSE, admitted |-> <<>>]

\* main: the model, the allocator and the limiter are built, the scheduler runs
Init ==
    /\ clock = 0
    /\ SchedulerInit
    /\ nonces = NonceNew
    /\ NonceQuiet
    /\ max_tokens \in {1, MaxBurst}
    /\ refill_rate = MaxRate
    /\ tokens = max_tokens
    /\ last_refill = CLOCK_PAIR
    /\ last0 = last_refill
    /\ LimiterQuiet
    /\ WindowQuiet
    /\ LoopInit

Next ==
    \/ Tick(MaxTime)
    \/ HandleBaseFee
    \/ HandleTxConfirmed
    \/ HandleMempoolTx
    \/ HandleTxRequest

\* the scheduler's loop handling one message at a time while the clock advances
Spec == Init /\ [][Next]_vars

InitLimiter ==
    /\ clock = 0
    /\ LimiterInit
    /\ nonces = NonceNew
    /\ NonceQuiet
    /\ SchedulerInit
    /\ WindowQuiet
    /\ LoopInit

NextLimiter ==
    \/ Tick(MaxClock)
    \/ \E t \in Threads : LimCallNow(t)
    \/ \E t \in Threads : LimElapsed(t)
    \/ \E t \in Threads : LimLoadLast(t)
    \/ \E t \in Threads : LimCasLast(t)
    \/ \E t \in Threads : LimRefillLoad(t)
    \/ \E t \in Threads : LimRefillCas(t)
    \/ \E t \in Threads : LimConsumeLoad(t)
    \/ \E t \in Threads : LimConsumeCas(t)

\* threads calling check_and_consume concurrently while the clock advances
SpecLimiter == InitLimiter /\ [][NextLimiter]_vars

InitNonce ==
    /\ clock = 0
    /\ NonceInit
    /\ max_tokens = 0 /\ refill_rate = 0 /\ tokens = 0
    /\ last_refill = 0 /\ last0 = 0
    /\ LimiterQuiet
    /\ SchedulerInit
    /\ WindowQuiet
    /\ LoopInit

NextNonceCalls ==
    \/ \E c \in Callers, a \in Senders : NonceEntry(c, a)
    \/ \E c \in Callers : NonceFetchAdd(c)

\* callers each making one next_nonce call, concurrently
SpecNonce == InitNonce /\ [][NextNonceCalls]_vars

\* GasModel::new(max_history) for any small capacity or the test's, nothing else running
InitModel ==
    /\ clock = 0
    /\ history = <<>>
    /\ max_history \in (0..MaxCapacity) \cup {TEST_CAPACITY}
    /\ WindowQuiet
    /\ pending_txs = <<>>
    /\ submitted_txs = [x \in {} |-> 0]
    /\ emitted = <<>>
    /\ submit_count = [id \in 1..MaxTx |-> 0]
    /\ ingested = {}
    /\ pass = [at |-> 0, fee |-> 0, spike |-> FALSE, admitted |-> <<>>]
    /\ nonces = NonceNew
    /\ NonceQuiet
    /\ max_tokens = 0 /\ refill_rate = 0 /\ tokens = 0
    /\ last_refill = 0 /\ last0 = 0
    /\ LimiterQuiet
    /\ LoopInit

\* GasModel::update(base_fee), called directly
ModelUpdate ==
    \E base_fee \in SampleValues :
        /\ Len(inserted) < MaxUpdates
        /\ history' = Update(history, max_history, base_fee)
        /\ inserted' = Append(inserted, base_fee)
        /\ UNCHANGED <<clock, limiterVars, nonceVars, loopVars, max_history,
                       pending_txs, submitted_txs, emitted, submit_count, ingested, pass>>

NextModel == ModelUpdate

\* a GasModel receiving update calls
SpecModel == InitModel /\ [][NextModel]_vars

\* ------------------------------------------------- Scheduler::run's loop
\* mpsc::Receiver::recv() yields Some(message) when one is queued
RecvSome(ch) == ch.queued > 0

\* mpsc::Receiver::recv() yields None when every sender is dropped and the
\* queue is drained; the select! branch `Some(..) = recv()` is then disabled
RecvNone(ch) == ch.closed /\ ch.queued = 0

SelectElseAny(gas_none, req_none) == gas_none \/ req_none

\* select!'s `else => break` (line 66): taken when every branch is disabled
SelectElse(gas_none, req_none) == gas_none /\ req_none

\* a sender puts a message on a channel (main, lines 52-57, 71)
Send(ch) == [ch EXCEPT !.queued = @ + 1, !.sent = @ + 1]

\* upstream sends a gas event
SendGasEvent ==
    /\ ~gas_events.closed /\ gas_events.sent < MaxSent
    /\ gas_events' = Send(gas_events)
    /\ UNCHANGED <<tx_requests, run, clock, limiterVars, nonceVars, schedVars, windowVars>>

\* upstream sends a transaction request
SendTxRequest ==
    /\ ~tx_requests.closed /\ tx_requests.sent < MaxSent
    /\ tx_requests' = Send(tx_requests)
    /\ UNCHANGED <<gas_events, run, clock, limiterVars, nonceVars, schedVars, windowVars>>

\* the last sender of gas events is dropped
CloseGasEvents ==
    /\ ~gas_events.closed
    /\ gas_events' = [gas_events EXCEPT !.closed = TRUE]
    /\ UNCHANGED <<tx_requests, run, clock, limiterVars, nonceVars, schedVars, windowVars>>

\* the last sender of requests is dropped
CloseTxRequests ==
    /\ ~tx_requests.closed
    /\ tx_requests' = [tx_requests EXCEPT !.closed = TRUE]
    /\ UNCHANGED <<gas_events, run, clock, limiterVars, nonceVars, schedVars, windowVars>>

\* run, lines 60-62: the gas branch of select! receives an event and the
\* handler is entered. History: run.alone counts the messages received from
\* one input while the other was closed and drained.
RunGasEvent ==
    /\ run.pc = "select" /\ RecvSome(gas_events)
    /\ gas_events' = [gas_events EXCEPT !.queued = @ - 1]
    /\ run' = [run EXCEPT !.pc = "handling", !.gas = @ + 1,
                          !.alone = @ + (IF RecvNone(tx_requests) THEN 1 ELSE 0)]
    /\ UNCHANGED <<tx_requests, clock, limiterVars, nonceVars, schedVars, windowVars>>

\* run, lines 63-65: the request branch of select! receives a request
RunTxRequest ==
    /\ run.pc = "select" /\ RecvSome(tx_requests)
    /\ tx_requests' = [tx_requests EXCEPT !.queued = @ - 1]
    /\ run' = [run EXCEPT !.pc = "handling", !.req = @ + 1,
                          !.alone = @ + (IF RecvNone(gas_events) THEN 1 ELSE 0)]
    /\ UNCHANGED <<gas_events, clock, limiterVars, nonceVars, schedVars, windowVars>>

\* the handler awaited at line 61 or 64 returns, its sends on decision_tx
\* completed; the loop comes back to select!
RunReturn ==
    /\ run.pc = "handling"
    /\ run' = [run EXCEPT !.pc = "select"]
    /\ UNCHANGED <<gas_events, tx_requests, clock, limiterVars, nonceVars, schedVars, windowVars>>

\* run, line 66: `else => break`
RunBreak ==
    /\ run.pc = "select"
    /\ SelectElse(RecvNone(gas_events), RecvNone(tx_requests))
    /\ run' = [run EXCEPT !.pc = "exited"]
    /\ UNCHANGED <<gas_events, tx_requests, clock, limiterVars, nonceVars, schedVars, windowVars>>

\* the steps of the scheduler's task
RunStep == RunGasEvent \/ RunTxRequest \/ RunReturn \/ RunBreak

InitRun ==
    /\ clock = 0
    /\ SchedulerInit
    /\ WindowQuiet
    /\ nonces = NonceNew
    /\ NonceQuiet
    /\ max_tokens = 0 /\ refill_rate = 0 /\ tokens = 0
    /\ last_refill = 0 /\ last0 = 0
    /\ LimiterQuiet
    /\ LoopInit

NextRun ==
    \/ SendGasEvent
    \/ SendTxRequest
    \/ CloseGasEvents
    \/ CloseTxRequests
    \/ RunGasEvent
    \/ RunTxRequest
    \/ RunReturn
    \/ RunBreak

\* Scheduler::run polled by the runtime while upstream sends and closes: the
\* task takes a step whenever it has one to take, and the decision consumer
\* (main, lines 43-47) keeps receiving, so that every handler returns
SpecRun == InitRun /\ [][NextRun]_vars /\ WF_vars(RunStep)

\* ====================================================================
\* Properties of the RateLimiter, checked under SpecLimiter
\* ====================================================================

\* C4 as stated: in every interval [t0, clock] the calls made inside it that
\* returned true number at most max_tokens + rate * floor((clock - t0) / 1s).
C4_ConservationAnyInterval ==
    \A t0 \in 0..clock :
        trueSince[t0] <= max_tokens + refill_rate * ((clock - t0) \div NANOS_PER_SEC)

\* C4 (amended): over an interval that starts at the limiter's construction,
\* the calls that returned true number at most
\* max_tokens + rate * floor(elapsed time / 1s).
C4_ConservationSinceConstruction ==
    trueSince[0] <= max_tokens + refill_rate * (clock \div NANOS_PER_SEC)

\* a refill has been credited and consumed, and the bound is met exactly
C4_Witness ==
    /\ trueSince[0] > max_tokens
    /\ trueSince[0] = max_tokens + refill_rate * (clock \div NANOS_PER_SEC)

\* C5: under any interleaving 0 <= tokens <= max_tokens; consumers never
\* over-draw (every true return took exactly one token that was in the bucket)
\* and refills never credit an elapsed interval twice (the credits granted are
\* covered by the whole seconds last_refill has advanced by).
C5_TokenBounds ==
    /\ tokens \in 0..max_tokens
    /\ tokens = max_tokens + added - trueSince[0]
    /\ added <= credited
    /\ credited * NANOS_PER_SEC <= refill_rate * (last_refill - last0)

\* two threads race on the token cell: one is in the refill loop, the other in
\* the decrement, and the refiller's compare-and-swap is about to fail
C5_Witness ==
    \E t1, t2 \in Threads :
        /\ t1 # t2
        /\ lim[t1].pc = "refill_cas"
        /\ lim[t2].pc = "consume_load"
        /\ lim[t1].cur # tokens
        /\ trueSince[0] > 0

\* ====================================================================
\* Properties of the NonceManager, checked under SpecNonce
\* ====================================================================
DoneCallers(a) == {c \in Callers : ncall[c].pc = "done" /\ ncall[c].addr = a}

InCall(a) == {c \in Callers : ncall[c].pc = "entry" /\ ncall[c].addr = a}

\* C3: the K completed next_nonce calls of a sender whose counter was at
\* start returned exactly {start, ..., start+K-1}, no value twice, and the
\* counter stands at start+K (also for the first call, which inserts the sender).
C3_ConsecutiveNonces ==
    \A a \in Senders :
        LET K == Cardinality(DoneCallers(a))
        IN  /\ {ncall[c].ret : c \in DoneCallers(a)} = start0[a]..(start0[a] + K - 1)
            /\ \A c, d \in DoneCallers(a) : c # d => ncall[c].ret # ncall[d].ret
            /\ PeekNonce(nonces, a) = start0[a] + K
            /\ (K > 0 \/ InCall(a) # {}) => nonces[a] # Absent

\* every caller has completed a call for one sender that was unseen at first
C3_Witness ==
    \E a \in Senders :
        /\ DoneCallers(a) = Callers
        /\ start0[a] = 0
        /\ {ncall[c].ret : c \in Callers} = 0..(Cardinality(Callers) - 1)

\* ====================================================================
\* Properties of the Scheduler, checked under Spec
\* ====================================================================
SubmittedIds == DOMAIN submitted_txs

Emitted(kind) == {i \in DOMAIN emitted : emitted[i].kind = kind}

\* C1: with unique request ids, no tx_id is ever sent more than one Submit.
C1_AtMostOneSubmit == \A id \in 1..MaxTx : submit_count[id] <= 1

\* a request was submitted in an earlier pass and a later pass repriced it
C1_Witness ==
    \E i \in Emitted("Reprice") : submit_count[emitted[i].tx_id] = 1

C2_ExactlyOneSet ==
    /\ PendingIds \cup SubmittedIds = ingested
    /\ PendingIds \cap SubmittedIds = {}
    /\ Cardinality(PendingIds) = Len(pending_txs)

C2_NeverBackToPending ==
    \A id \in SubmittedIds : id \in DOMAIN submitted_txs' /\ id \notin PendingIds'

\* C2: after every handler each ingested tx_id is in exactly one of pending
\* and submitted, and a tx_id that entered submitted never re-enters pending.
C2_PendingXorSubmitted == []C2_ExactlyOneSet /\ [][C2_NeverBackToPending]_vars

\* one pass submitted both pending requests and removed both from the list
C2_Witness ==
    /\ Cardinality(Emitted("Submit")) = MaxTx
    /\ PendingIds = {}
    /\ SubmittedIds = ingested

\* C6 as stated: a Submit sent in normal mode has gas_price <= max_fee_per_gas.
C6_NormalSubmitWithinCap ==
    \A i \in Emitted("Submit") :
        ~pass.spike =>
            emitted[i].gas_price <= submitted_txs[emitted[i].tx_id].req.max_fee_per_gas

\* the number of Submits for `from` sent at positions >= j of the last pass
SubmitsFrom(j, from) ==
    Cardinality({k \in Emitted("Submit") :
                    k >= j /\ submitted_txs[emitted[k].tx_id].req.from = from})

\* C7: in a spike pass every pending request the limiter admitted is
\* submitted whatever its cap: it left pending, its record holds the price
\* current_fee + tip, and a Submit with that price and the allocator's next
\* nonce for its sender was sent.
C7_SpikeSubmitsAdmitted ==
    pass.spike =>
        \A n \in DOMAIN pass.admitted :
            LET id == pass.admitted[n]
            IN  /\ id \in SubmittedIds
                /\ id \notin PendingIds
                /\ \E j \in Emitted("Submit") :
                     LET tx == submitted_txs[id]
                     IN  /\ emitted[j].tx_id = id
                         /\ emitted[j].gas_price =
                                pass.fee + tx.req.max_priority_fee_per_gas
                         /\ emitted[j].nonce = tx.nonce
                         /\ emitted[j].nonce =
                                PeekNonce(nonces, tx.req.from) - SubmitsFrom(j, tx.req.from)
                         /\ tx.last_gas_price = emitted[j].gas_price

\* a spike pass submitted a request above its cap
C7_Witness ==
    /\ pass.spike
    /\ \E j \in Emitted("Submit") :
         emitted[j].gas_price > submitted_txs[emitted[j].tx_id].req.max_fee_per_gas

C8_StrictBump ==
    \A i \in Emitted("Reprice") :
        emitted[i].gas_price > (emitted[i].old * 110) \div 100

C8_FloorNeverTriggers ==
    \A id \in SubmittedIds :
        LET tx == submitted_txs[id]
        IN  CurrentFee(history') + tx.req.max_priority_fee_per_gas
                = (tx.last_gas_price * 110) \div 100
            => submitted_txs'[id] = tx

\* C8: every Reprice has new_gas_price > (last_gas_price * 110) / 100, and a
\* desired price equal to that floor leaves the record as it was.
C8_TenPercentBump == []C8_StrictBump /\ [][C8_FloorNeverTriggers]_vars

\* one pass, run after the cooldown of both records, repriced one and left
\* alone the other, whose desired price was exactly its floor
C8_Witness ==
    /\ Emitted("Reprice") # {}
    /\ \E id \in SubmittedIds :
         LET tx == submitted_txs[id]
             desired == pass.fee + tx.req.max_priority_fee_per_gas
         IN  /\ pass.at - tx.last_action_at >= REPRICE_COOLDOWN
             /\ desired = (tx.last_gas_price * 110) \div 100
             /\ desired <= tx.req.max_fee_per_gas

C9_RepriceWithinCap ==
    \A i \in Emitted("Reprice") :
        emitted[i].gas_price <= submitted_txs[emitted[i].tx_id].req.max_fee_per_gas

C9_OverCapKeepsRecord ==
    \A id \in SubmittedIds :
        LET tx == submitted_txs[id]
        IN  CurrentFee(history') + tx.req.max_priority_fee_per_gas
                > tx.req.max_fee_per_gas
            => /\ submitted_txs'[id].last_gas_price = tx.last_gas_price
               /\ submitted_txs'[id].last_action_at = tx.last_action_at

\* C9: no Reprice exceeds the request's max_fee_per_gas, in either mode, and
\* a record whose current_fee + tip exceeds the cap keeps its price and time.
C9_RepriceRespectsCap == []C9_RepriceWithinCap /\ [][C9_OverCapKeepsRecord]_vars

\* a spike pass, run after the cooldown, met a record whose desired price was
\* above both the bump floor and the cap, and left it alone
C9_Witness ==
    /\ pass.spike
    /\ \E id \in SubmittedIds :
         LET tx == submitted_txs[id]
             desired == pass.fee + tx.req.max_priority_fee_per_gas
         IN  /\ pass.at - tx.last_action_at >= REPRICE_COOLDOWN
             /\ desired > (tx.last_gas_price * 110) \div 100
             /\ desired > tx.req.max_fee_per_gas

\* C10 as stated: a Reprice enters the decision stream at least
\* reprice_cooldown after the previous decision for the same tx_id did
\* (the previous Reprice, or the Submit).
C10_CooldownBetweenDecisions ==
    \A i \in Emitted("Reprice") :
        emitted[i].at - emitted[i].prev_at >= REPRICE_COOLDOWN

\* C11 as stated: once a BaseFeeUpdate has left a submitted request with
\* current_fee + tip above its bump floor and within its cap, and the reprice
\* cooldown has passed, the Reprice has been sent: the record carries the price
\* current_fee + tip.
C11_RepriceOnceCooldownPassed ==
    \A id \in SubmittedIds :
        LET tx == submitted_txs[id]
            desired == DesiredPrice(CurrentFee(history), tx.req)
        IN  (/\ history # <<>>
             /\ desired > (tx.last_gas_price * 110) \div 100
             /\ desired <= tx.req.max_fee_per_gas
             /\ clock - tx.last_action_at > REPRICE_COOLDOWN)
            => tx.last_gas_price = desired

\* C12 as stated: a request left pending because current_fee was above its
\* cap is submitted by the pass that finds current_fee <= its cap in normal
\* mode, however many passes it waited through. The request is the only one
\* ever received, so no other request took a token.
C12_DeferredThenSubmitted ==
    \A i \in DOMAIN pending_txs :
        ingested = {pending_txs[i].id}
            => (pass.spike \/ pass.fee > pending_txs[i].max_fee_per_gas)

\* the cap of a request received, pending or submitted
CapOf(id) ==
    IF id \in SubmittedIds THEN submitted_txs[id].req.max_fee_per_gas
    ELSE LET i == CHOOSE i \in DOMAIN pending_txs : pending_txs[i].id = id
         IN  pending_txs[i].max_fee_per_gas

\* the n smallest elements of S
SmallestIds(S, n) == {x \in S : Cardinality({y \in S : y < x}) < n}

\* more requests than the bucket's capacity were received, all admissible in
\* normal mode in every pass so far: the window (nothing evicted yet) holds
\* every fee seen, too few for a spike, none above a cap
BurstOverCapacity ==
    /\ Cardinality(ingested) > max_tokens
    /\ Len(history) < max_history /\ ~IsSpike(history)
    /\ \A id \in ingested, k \in DOMAIN history : history[k] <= CapOf(id)

\* C13 as stated: exactly C Submits, for the C smallest ids, K - C pending.
C13_SmallestIdsSubmitted ==
    BurstOverCapacity =>
        /\ Cardinality(SubmittedIds) = max_tokens
        /\ SubmittedIds = SmallestIds(ingested, max_tokens)
        /\ Len(pending_txs) = Cardinality(ingested) - max_tokens

\* within one pass the limiter admits the pending entries in increasing id:
\* every entry the pass did not reach has a larger id than those it admitted
AdmittedSmallestFirst ==
    \A n \in DOMAIN pass.admitted, i \in DOMAIN pending_txs :
        (\A m \in DOMAIN pass.admitted : pass.admitted[m] # pending_txs[i].id)
            => pass.admitted[n] < pending_txs[i].id

\* C13 (amended): exactly C Submits are sent, one per request, and K - C
\* requests remain pending; the ids are taken smallest first within one pass,
\* not among all K requests.
C13_CapacityManySubmitted ==
    /\ AdmittedSmallestFirst
    /\ BurstOverCapacity =>
        /\ Cardinality(SubmittedIds) = max_tokens
        /\ \A id \in ingested : submit_count[id] = IF id \in SubmittedIds THEN 1 ELSE 0
        /\ Len(pending_txs) = Cardinality(ingested) - max_tokens
        /\ tokens = 0

\* the request with the larger id arrived first and took the only token
C13_Witness ==
    /\ BurstOverCapacity
    /\ SubmittedIds # SmallestIds(ingested, max_tokens)
    /\ \E i \in DOMAIN pending_txs : \A id \in SubmittedIds : pending_txs[i].id < id

\* C15 as stated: a limiter built with rate 0 or with max 0 is disabled, no
\* check_and_consume call on it ever returns true. (Checked under SpecLimiter.)
C15_ZeroRateOrMaxDisabled ==
    (refill_rate = 0 \/ max_tokens = 0) => trueSince[0] = 0

\* C19 as stated: a call made more than one second of process time after the
\* last refill credits the bucket, so that an empty bucket admits again. The
\* call of thread t began later than one second after construction (time 0)
\* and has gone through refill: the bucket is not empty, or a credit was made
\* before. (Checked under SpecLimiter.)
C19_RefillAfterOneSecond ==
    \A t \in Threads :
        (/\ lim[t].pc = "consume_load"
         /\ lim[t].inst > NANOS_PER_SEC
         /\ refill_rate > 0 /\ max_tokens > 0)
        => (tokens > 0 \/ credited > 0)

\* ====================================================================
\* Properties of the GasModel, checked under SpecModel
\* ====================================================================

\* the last n elements of s (all of s when it is shorter)
LastN(s, n) == SubSeq(s, IF Len(s) > n THEN Len(s) - n + 1 ELSE 1, Len(s))

\* C14 as stated: for every capacity the window never holds more than
\* max_history samples, holds the most recent samples in insertion order, and
\* current_fee is the last sample inserted (0 when there is none).
C14_WindowWithinCapacity ==
    /\ Len(history) <= max_history
    /\ history = LastN(inserted, Len(history))
    /\ CurrentFee(history) = IF inserted = <<>> THEN 0 ELSE inserted[Len(inserted)]

RECURSIVE SubmitsUpTo(_)
SubmitsUpTo(id) == IF id = 0 THEN 0 ELSE submit_count[id] + SubmitsUpTo(id - 1)

\* C18 as stated: the tokens taken from the bucket (it is never refilled
\* here) number the Submit decisions sent.
C18_OneTokenPerSubmit ==
    max_tokens - tokens = SubmitsUpTo(MaxTx)

\* ====================================================================
\* Properties of Scheduler::run's loop, checked under SpecRun
\* ====================================================================

\* the loop has exited only with both inputs closed and drained, every
\* message sent having been received
C16_NotBeforeBothClosed ==
    run.pc = "exited" =>
        /\ RecvNone(gas_events) /\ RecvNone(tx_requests)
        /\ run.gas = gas_events.sent /\ run.req = tx_requests.sent

\* at select! with one input closed and drained and a message queued on the
\* other, the loop receives that message and does not break
C16_OtherInputStillServed ==
    /\ (run.pc = "select" /\ RecvNone(gas_events) /\ RecvSome(tx_requests))
           => (ENABLED RunTxRequest /\ ~ENABLED RunBreak)
    /\ (run.pc = "select" /\ RecvNone(tx_requests) /\ RecvSome(gas_events))
           => (ENABLED RunGasEvent /\ ~ENABLED RunBreak)

\* C16: Scheduler::run terminates once both inputs are closed and drained,
\* and not before: it never exits while an input is open or holds a message,
\* with one input closed the other's messages are still received, and once
\* both are closed the loop exits.
C16_RunEndsWhenBothClosed ==
    /\ [](C16_NotBeforeBothClosed /\ C16_OtherInputStillServed)
    /\ ((gas_events.closed /\ tx_requests.closed) ~> (run.pc = "exited"))

\* the loop has exited after receiving a message from one input while the
\* other was already closed and drained
C16_Witness ==
    /\ run.pc = "exited"
    /\ run.alone > 0
    /\ run.gas + run.req > 0

\* ====================================================================
\* The Scheduler as the allocator's only caller, checked under Spec
\* ====================================================================

\* the requests of sender a that were submitted
SubmittedFrom(a) == {id \in SubmittedIds : submitted_txs[id].req.from = a}

\* C20: the nonces of a sender's Submits are 0, 1, 2, ... without gap or
\* duplicate, in the order the Submits were sent, and the allocator's counter
\* is the number of Submits: no nonce went to an entry left pending or
\* stopped by the limiter.
C20_SubmitNoncesConsecutive ==
    \A a \in Senders :
        LET ids == SubmittedFrom(a)
        IN  /\ {submitted_txs[id].nonce : id \in ids} = 0..(Cardinality(ids) - 1)
            /\ \A x, y \in ids : x # y => submitted_txs[x].nonce # submitted_txs[y].nonce
            /\ PeekNonce(nonces, a) = Cardinality(ids)
            /\ \A i, j \in Emitted("Submit") :
                 (i < j /\ emitted[i].tx_id \in ids /\ emitted[j].tx_id \in ids)
                     => emitted[i].nonce < emitted[j].nonce
            /\ \A j \in Emitted("Submit"), x \in ids :
                 (emitted[j].tx_id \in ids
                    /\ \A i \in Emitted("Submit") : emitted[i].tx_id # x)
                     => submitted_txs[x].nonce < emitted[j].nonce

\* a sender has two Submits, and some pass left an entry pending at the cost
\* of a token
C20_Witness ==
    \E a \in Senders :
        /\ Cardinality(SubmittedFrom(a)) = 2
        /\ max_tokens - tokens > SubmitsUpTo(MaxTx)

====
